---- MODULE Spec2Model ----
(***************************************************************************)
(* Model of the assistant-server POST /chat handlers (src/server.js and    *)
(* the two earlier variants src/unnamed/part_000, src/unnamed/part_001)    *)
(* and of the catalog resolver functions of src/server.js.                 *)
(*                                                                         *)
(* JavaScript values are tagged records: JNull, JUndef, JNum(n), JStr(s).  *)
(* A string is a sequence of characters; a character is a one-token TLA+   *)
(* string.  "e_acute" is U+00E9, "acute" is the combining mark U+0301.     *)
(***************************************************************************)
EXTENDS Integers, Sequences, FiniteSets, TLC

\* ---------------------------------------------------------------- bounds
MaxId == 2
MaxServices == 2
MaxRequested == 1
MaxPlanServices == 2
NumReqs == 2

\* ------------------------------------------------------------- JS values
JNull == [t |-> "null"]
JUndef == [t |-> "undefined"]
JNum(n) == [t |-> "number", v |-> n]
JStr(s) == [t |-> "string", v |-> s]

IsNum(x) == x.t = "number"
IsStr(x) == x.t = "string"

Range(s) == {s[i] : i \in 1..Len(s)}

RECURSIVE SeqsUpTo(_, _)
SeqsUpTo(S, n) ==
  IF n = 0 THEN {<<>>}
  ELSE LET shorter == SeqsUpTo(S, n - 1)
       IN  shorter \cup {Append(q, x) : q \in {p \in shorter : Len(p) = n - 1}, x \in S}

\* ------------------------------------------------------------ strings
Jose == <<"J", "o", "s", "e_acute">>
JOSE == <<" ", "J", "O", "S", "E">>
Ana == <<"A", "n", "a">>
Names == {Jose, JOSE, Ana}

Whitespace == {" "}
Diacritic == {"acute"}

\* String.prototype.normalize('NFD'): canonical decomposition, per character
NFDChar(c) == IF c = "e_acute" THEN <<"e", "acute">> ELSE <<c>>

RECURSIVE NFD(_)
NFD(s) == IF s = <<>> THEN <<>> ELSE NFDChar(Head(s)) \o NFD(Tail(s))

\* .replace(/\p{Diacritic}/gu, '')
StripDiacritics(s) == SelectSeq(s, LAMBDA c : c \notin Diacritic)

LowerChar(c) ==
  CASE c = "J" -> "j"
    [] c = "O" -> "o"
    [] c = "S" -> "s"
    [] c = "E" -> "e"
    [] c = "A" -> "a"
    [] OTHER -> c

\* .toLowerCase()
ToLowerCase(s) == [i \in 1..Len(s) |-> LowerChar(s[i])]

RECURSIVE TrimStart(_)
TrimStart(s) ==
  IF s # <<>> /\ Head(s) \in Whitespace THEN TrimStart(Tail(s)) ELSE s

RECURSIVE TrimEnd(_)
TrimEnd(s) ==
  IF s # <<>> /\ s[Len(s)] \in Whitespace THEN TrimEnd(SubSeq(s, 1, Len(s) - 1)) ELSE s

\* .trim()
Trim(s) == TrimEnd(TrimStart(s))

norm(s) == Trim(ToLowerCase(StripDiacritics(NFD(s))))

\* ------------------------------------------------------------ catalog
Ids == 0..MaxId

\* a service accepted by CatalogSchema; an absent synonyms field is <<>>,
\* which is what `s.synonyms ?? []` makes of it
Services ==
  [id : Ids, name : Names, synonyms : {<<>>}]
    \cup [id : Ids, name : {Ana}, synonyms : {<<JOSE>>}]
Barbers == [id : Ids, name : Names]

\* keys of one service: [s.name, ...(s.synonyms ?? [])].map(norm)
keysOf(s) == [i \in 1..(1 + Len(s.synonyms)) |->
                norm(IF i = 1 THEN s.name ELSE s.synonyms[i - 1])]

\* byName after the loop over the first n catalog services; Map.set overwrites
RECURSIVE byNameUpTo(_, _)
byNameUpTo(catalogServices, n) ==
  IF n = 0 THEN <<>>
  ELSE LET prev == byNameUpTo(catalogServices, n - 1)
           s == catalogServices[n]
           ks == Range(keysOf(s))
       IN  [k \in (DOMAIN prev) \cup ks |-> IF k \in ks THEN s.id ELSE prev[k]]

\* variant of byName in which an earlier service keeps a key it already holds
byNameFirstWins(catalogServices) ==
  LET rev == [i \in 1..Len(catalogServices) |-> catalogServices[Len(catalogServices) + 1 - i]]
  IN  byNameUpTo(rev, Len(rev))

byName(catalogServices) == byNameUpTo(catalogServices, Len(catalogServices))

\* byName.get(k): JUndef on a miss
byNameGet(catalogServices, k) ==
  LET m == byName(catalogServices)
  IN  IF k \in DOMAIN m THEN JNum(m[k]) ELSE JUndef

\* JavaScript truthiness of the value byName.get returns (`if (id)`)
Truthy(x) == IsNum(x) /\ x.v # 0

\* the id pushed for one requested item, <<>> when nothing is pushed
pushed(item, catalogServices) ==
  IF IsNum(item) THEN <<item.v>>
  ELSE LET id == byNameGet(catalogServices, norm(item.v))
       IN  IF Truthy(id) THEN <<id.v>> ELSE <<>>

RECURSIVE outOf(_, _)
outOf(requested, catalogServices) ==
  IF requested = <<>> THEN <<>>
  ELSE pushed(Head(requested), catalogServices) \o outOf(Tail(requested), catalogServices)

\* [...new Set(out)]: first occurrence of each value, in insertion order
RECURSIVE Dedup(_)
Dedup(s) ==
  IF s = <<>> THEN <<>>
  ELSE LET front == Dedup(SubSeq(s, 1, Len(s) - 1))
           last == s[Len(s)]
       IN  IF last \in Range(front) THEN front ELSE Append(front, last)

mapServicesToIds(requested, catalogServices) ==
  Dedup(outOf(requested, catalogServices))

\* variant of findBarber that keeps the last match
findBarberLast(catalogBarbers, needle) ==
  LET hits == {i \in 1..Len(catalogBarbers) : norm(catalogBarbers[i].name) = needle}
  IN  IF hits = {} THEN 0 ELSE CHOOSE i \in hits : \A j \in hits : i >= j

\* catalogBarbers.find(b => norm(b.name) === needle): index of the first match, 0 if none
findBarber(catalogBarbers, needle) ==
  LET hits == {i \in 1..Len(catalogBarbers) : norm(catalogBarbers[i].name) = needle}
  IN  IF hits = {} THEN 0 ELSE CHOOSE i \in hits : \A j \in hits : i <= j

mapBarberToId(requested, catalogBarbers) ==
  IF requested.t \in {"null", "undefined"} THEN JNull
  ELSE IF IsNum(requested) THEN requested
  ELSE LET found == findBarber(catalogBarbers, norm(requested.v))
       IN  IF found # 0 THEN JNum(catalogBarbers[found].id) ELSE JNull

\* -------------------------------------------------- request and model I/O
Reqs == 1..NumReqs

Intents == {"create_appointment", "get_next_appointment", "search_services", "small_talk"}

JArr(q) == [t |-> "array", v |-> q]
JObj(barber, services) == [t |-> "object", barber |-> barber, services |-> services]

EmptyCatalog == [services |-> <<>>, barbers |-> <<>>]

\* req.body.catalog: absent, not matching CatalogSchema, or a catalog
CatalogInputs ==
  {[t |-> "undefined"], [t |-> "invalid"]}
    \cup {[t |-> "object", services |-> ss, barbers |-> bs] :
            ss \in SeqsUpTo(Services, 1), bs \in SeqsUpTo([id : Ids, name : {Jose}], 1)}

\* CatalogSchema.safeParse(req.body?.catalog ?? {}) and the fallback of line 73
parseCatalog(input) ==
  IF input.t = "object" THEN [services |-> input.services, barbers |-> input.barbers]
  ELSE EmptyCatalog

Items == {JNum(n) : n \in Ids} \cup {JStr(s) : s \in Names}
ServicesInputs == {JUndef} \cup {JArr(q) : q \in SeqsUpTo(Items, MaxPlanServices)}
BarberInputs == {JUndef, JNull} \cup {JNum(n) : n \in Ids}

ArgsInputs ==
  {JObj(b, sv) : b \in BarberInputs, sv \in ServicesInputs}
    \cup {JObj(JStr(Ana), JUndef)}

\* JSON values the planner may print
JsonInputs ==
  {[intent |-> JStr(i), args |-> a] : i \in {"create_appointment", "small_talk"}, a \in ArgsInputs}
    \cup {[intent |-> JStr(i), args |-> a] :
            i \in Intents, a \in {JUndef, JObj(JUndef, JUndef), JObj(JNull, JArr(<<>>))}}
    \cup {[intent |-> JStr("unknown_tag"), args |-> JObj(JUndef, JUndef)],
          [intent |-> JUndef, args |-> JUndef]}

\* message content of the planner completion: missing, prose, or JSON text,
\* possibly wrapped in a ```json fence or in a bare ``` fence
ContentInputs ==
  {[kind |-> "missing"], [kind |-> "prose"]}
    \cup {[kind |-> "json", fence |-> "none", value |-> v] : v \in JsonInputs}
    \cup {[kind |-> "json", fence |-> f, value |-> [intent |-> JStr(i), args |-> JObj(JNull, JUndef)]] :
            f \in {"json", "bare"}, i \in Intents}

NoOutcome == [t |-> "none"]
Threw == [t |-> "threw"]
PlannerOutcomes == {Threw} \cup {[t |-> "returned", content |-> c] : c \in ContentInputs}

\* content of the small-talk / plain completion: a text or missing
TalkOutcomes == {Threw, [t |-> "returned", content |-> JStr("hola")],
                 [t |-> "returned", content |-> JUndef]}

\* plan.choices?.[0]?.message?.content?.trim() || '{}'
rawOf(content) ==
  IF content.kind = "missing"
  THEN [kind |-> "json", fence |-> "none", value |-> [intent |-> JUndef, args |-> JUndef]]
  ELSE content

\* raw.replace(/^```json\s*/i, '').replace(/```$/, ''): the opening of a bare
\* fence is left in place
stripFence(raw) ==
  IF raw.kind = "json"
  THEN [kind |-> "json", leading |-> (raw.fence = "bare"), value |-> raw.value]
  ELSE raw

\* does JSON.parse(jsonStr) return (TRUE) or throw (FALSE)
jsonParses(jsonStr) == jsonStr.kind = "json" /\ ~jsonStr.leading

\* IntentSchema.safeParse(value).success of src/server.js
IntentSchemaOk(value) ==
  /\ IsStr(value.intent) /\ value.intent.v \in Intents
  /\ value.args.t = "object"
  /\ value.args.barber.t \in {"number", "null", "undefined"}
  /\ value.args.services.t \in {"array", "undefined"}

\* IntentSchema.parse(value) of part_001 returns (TRUE) or throws (FALSE)
IntentSchema001Ok(value) ==
  /\ IsStr(value.intent) /\ value.intent.v \in Intents
  /\ value.args.t \in {"object", "undefined"}

\* x ?? d
Coalesce(x, d) == IF x.t \in {"null", "undefined"} THEN d ELSE x

PlannerCall == [kind |-> "planner", temperature |-> 2, status |-> "pending"]
TalkCall == [kind |-> "talk", temperature |-> 6, status |-> "pending"]
CompletionCall == [kind |-> "completion", temperature |-> 3, status |-> "pending"]

\* the last call issued settles with the given status
settle(cs, status) == [cs EXCEPT ![Len(cs)].status = status]

\* the catch block: res.status(500).json({ ok: false, error })
catchResponse == [status |-> 500, ok |-> FALSE, error |-> "Fallo en el servicio de IA (Groq)"]

\* variant of the catch block that answers with a canned small-talk body
catchSendCanned(resps) ==
  Append(resps, [status |-> 200, ok |-> TRUE, mode |-> "small_talk", content |-> JStr("emoji")])

\* variant of the catch block that only logs
catchSwallow(resps) == resps

catchSend(resps) == Append(resps, catchResponse)

\* talk.choices?.[0]?.message?.content ?? emoji
talkContent(outcome) == Coalesce(outcome.content, JStr("emoji"))

smallTalkResponse(content) ==
  [status |-> 200, ok |-> TRUE, mode |-> "small_talk", content |-> content]

\* variant of callsOnInvalid that asks the planner once more before falling back
callsOnInvalidRetry(cs) == Append(Append(cs, [PlannerCall EXCEPT !.status = "returned"]), TalkCall)

\* the calls after the planner output failed validation
callsOnInvalid(cs) == Append(cs, TalkCall)

\* (data.args.services ?? []).filter(s => typeof s === 'string' && !serviceIds.length)
unmatchedServices(services, serviceIds) ==
  SelectSeq(services, LAMBDA s : IsStr(s) /\ Len(serviceIds) = 0)

\* steps 3 and 4 of the handler: resolve against the catalog and build the body
businessResponse(data, cat) ==
  LET services == Coalesce(data.args.services, JArr(<<>>)).v
      serviceIds == mapServicesToIds(services, cat.services)
      barberId == mapBarberToId(Coalesce(data.args.barber, JNull), cat.barbers)
  IN  [status |-> 200, ok |-> TRUE,
       mode |-> IF data.intent.v = "small_talk" THEN "small_talk" ELSE "business",
       intent |-> data.intent.v,
       args |-> [barber |-> Coalesce(barberId, JNull), services |-> serviceIds],
       meta |-> [unmatchedServices |-> unmatchedServices(services, serviceIds)]]

\* part_001: the business branch returns the captured JSON
businessResponse001(parsed) ==
  [status |-> 200, ok |-> TRUE, mode |-> "business", intent |-> parsed.intent.v,
   args |-> Coalesce(parsed.args, JObj(JUndef, JUndef)),
   content |-> JStr("He detectado intencion")]

\* part_000: res.json({ ok: true, content })
plainResponse(outcome) ==
  [status |-> 200, ok |-> TRUE, content |-> Coalesce(outcome.content, JStr("Sin respuesta."))]

\* ------------------------------------------------------------------ state
VARIABLES
  variant,      \* which program serves POST /chat: "server", "part_001", "part_000"
  pc,           \* per request: "idle", "await_plan", "await_talk", "await_completion", "done"
  catalog,      \* per request: the catalog parsed from the body
  plan,         \* per request: how the planner call settled
  talk,         \* per request: how the small-talk (or plain completion) call settled
  calls,        \* per request: the external model calls issued, in order
  responses,    \* per request: the responses sent, in order
  fnOp,         \* resolver function applied: "none", "mapServicesToIds", "mapBarberToId"
  fnRequested,  \* its first argument
  fnCatalog,    \* its second argument
  fnOut         \* its result

vars == <<variant, pc, catalog, plan, talk, calls, responses, fnOp, fnRequested, fnCatalog, fnOut>>
reqVars == <<variant, pc, catalog, plan, talk, calls, responses>>
fnVars == <<fnOp, fnRequested, fnCatalog, fnOut>>

InitReqs ==
  /\ pc = [r \in Reqs |-> "idle"]
  /\ catalog = [r \in Reqs |-> EmptyCatalog]
  /\ plan = [r \in Reqs |-> NoOutcome]
  /\ talk = [r \in Reqs |-> NoOutcome]
  /\ calls = [r \in Reqs |-> <<>>]
  /\ responses = [r \in Reqs |-> <<>>]

InitFn ==
  /\ fnOp = "none"
  /\ fnRequested = <<>>
  /\ fnCatalog = <<>>
  /\ fnOut = <<>>

\* ------------------------------------------- POST /chat of src/server.js
\* lines 71-118: read the body, build the prompt, issue the planner call
ChatReceive(r, catalogInputs) ==
  /\ variant = "server"
  /\ pc[r] = "idle"
  /\ \E input \in catalogInputs :
       catalog' = [catalog EXCEPT ![r] = parseCatalog(input)]
  /\ calls' = [calls EXCEPT ![r] = Append(@, PlannerCall)]
  /\ pc' = [pc EXCEPT ![r] = "await_plan"]
  /\ UNCHANGED <<variant, plan, talk, responses, fnVars>>

\* lines 111-159 and the catch: the planner call settles and the handler runs
\* to its next await or to its response
ChatPlannerSettles(r, outcomes) ==
  /\ variant = "server"
  /\ pc[r] = "await_plan"
  /\ \E outcome \in outcomes :
       /\ plan' = [plan EXCEPT ![r] = outcome]
       /\ IF outcome.t = "threw"
          THEN /\ calls' = [calls EXCEPT ![r] = settle(@, "threw")]
               /\ responses' = [responses EXCEPT ![r] = catchSend(@)]
               /\ pc' = [pc EXCEPT ![r] = "done"]
          ELSE LET jsonStr == stripFence(rawOf(outcome.content))
               IN  IF ~jsonParses(jsonStr)
                   THEN /\ calls' = [calls EXCEPT ![r] = settle(@, "returned")]
                        /\ responses' = [responses EXCEPT ![r] = catchSend(@)]
                        /\ pc' = [pc EXCEPT ![r] = "done"]
                   ELSE IF ~IntentSchemaOk(jsonStr.value)
                   THEN /\ calls' = [calls EXCEPT ![r] = callsOnInvalid(settle(@, "returned"))]
                        /\ pc' = [pc EXCEPT ![r] = "await_talk"]
                        /\ UNCHANGED responses
                   ELSE /\ calls' = [calls EXCEPT ![r] = settle(@, "returned")]
                        /\ responses' = [responses EXCEPT ![r] =
                                           Append(@, businessResponse(jsonStr.value, catalog[r]))]
                        /\ pc' = [pc EXCEPT ![r] = "done"]
  /\ UNCHANGED <<variant, catalog, talk, fnVars>>

\* lines 125-134 and the catch: the small-talk call settles
ChatTalkSettles(r) ==
  /\ variant = "server"
  /\ pc[r] = "await_talk"
  /\ \E outcome \in TalkOutcomes :
       /\ talk' = [talk EXCEPT ![r] = outcome]
       /\ IF outcome.t = "threw"
          THEN /\ calls' = [calls EXCEPT ![r] = settle(@, "threw")]
               /\ responses' = [responses EXCEPT ![r] = catchSend(@)]
          ELSE /\ calls' = [calls EXCEPT ![r] = settle(@, "returned")]
               /\ responses' = [responses EXCEPT ![r] =
                                  Append(@, smallTalkResponse(talkContent(outcome)))]
  /\ pc' = [pc EXCEPT ![r] = "done"]
  /\ UNCHANGED <<variant, catalog, plan, fnVars>>

\* ------------------------------------- POST /chat of src/unnamed/part_001
Chat001Receive(r) ==
  /\ variant = "part_001"
  /\ pc[r] = "idle"
  /\ calls' = [calls EXCEPT ![r] = Append(@, PlannerCall)]
  /\ pc' = [pc EXCEPT ![r] = "await_plan"]
  /\ UNCHANGED <<variant, catalog, plan, talk, responses, fnVars>>

Chat001PlannerSettles(r) ==
  /\ variant = "part_001"
  /\ pc[r] = "await_plan"
  /\ \E outcome \in PlannerOutcomes :
       /\ plan' = [plan EXCEPT ![r] = outcome]
       /\ IF outcome.t = "threw"
          THEN /\ calls' = [calls EXCEPT ![r] = settle(@, "threw")]
               /\ responses' = [responses EXCEPT ![r] = catchSend(@)]
               /\ pc' = [pc EXCEPT ![r] = "done"]
          ELSE LET jsonStr == stripFence(rawOf(outcome.content))
                   valid == jsonParses(jsonStr) /\ IntentSchema001Ok(jsonStr.value)
                   \* the inner catch: parse or validation failure is small talk
                   parsed == IF valid THEN jsonStr.value
                             ELSE [intent |-> JStr("small_talk"), args |-> JObj(JUndef, JUndef)]
               IN  IF parsed.intent.v = "small_talk"
                   THEN /\ calls' = [calls EXCEPT ![r] = callsOnInvalid(settle(@, "returned"))]
                        /\ pc' = [pc EXCEPT ![r] = "await_talk"]
                        /\ UNCHANGED responses
                   ELSE /\ calls' = [calls EXCEPT ![r] = settle(@, "returned")]
                        /\ responses' = [responses EXCEPT ![r] = Append(@, businessResponse001(parsed))]
                        /\ pc' = [pc EXCEPT ![r] = "done"]
  /\ UNCHANGED <<variant, catalog, talk, fnVars>>

Chat001TalkSettles(r) ==
  /\ variant = "part_001"
  /\ pc[r] = "await_talk"
  /\ \E outcome \in TalkOutcomes :
       /\ talk' = [talk EXCEPT ![r] = outcome]
       /\ IF outcome.t = "threw"
          THEN /\ calls' = [calls EXCEPT ![r] = settle(@, "threw")]
               /\ responses' = [responses EXCEPT ![r] = catchSend(@)]
          ELSE /\ calls' = [calls EXCEPT ![r] = settle(@, "returned")]
               /\ responses' = [responses EXCEPT ![r] =
                                  Append(@, smallTalkResponse(talkContent(outcome)))]
  /\ pc' = [pc EXCEPT ![r] = "done"]
  /\ UNCHANGED <<variant, catalog, plan, fnVars>>

\* ------------------------------------- POST /chat of src/unnamed/part_000
Chat000Receive(r) ==
  /\ variant = "part_000"
  /\ pc[r] = "idle"
  /\ calls' = [calls EXCEPT ![r] = Append(@, CompletionCall)]
  /\ pc' = [pc EXCEPT ![r] = "await_completion"]
  /\ UNCHANGED <<variant, catalog, plan, talk, responses, fnVars>>

Chat000CompletionSettles(r) ==
  /\ variant = "part_000"
  /\ pc[r] = "await_completion"
  /\ \E outcome \in TalkOutcomes :
       /\ talk' = [talk EXCEPT ![r] = outcome]
       /\ IF outcome.t = "threw"
          THEN /\ calls' = [calls EXCEPT ![r] = settle(@, "threw")]
               /\ responses' = [responses EXCEPT ![r] = catchSend(@)]
          ELSE /\ calls' = [calls EXCEPT ![r] = settle(@, "returned")]
               /\ responses' = [responses EXCEPT ![r] = Append(@, plainResponse(outcome))]
  /\ pc' = [pc EXCEPT ![r] = "done"]
  /\ UNCHANGED <<variant, catalog, plan, fnVars>>

\* -------------------------------------------------- one request at a time
Init ==
  /\ variant \in {"server", "part_001", "part_000"}
  /\ InitReqs
  /\ InitFn

Next ==
  \/ ChatReceive(1, CatalogInputs)
  \/ ChatPlannerSettles(1, PlannerOutcomes)
  \/ ChatTalkSettles(1)
  \/ Chat001Receive(1)
  \/ Chat001PlannerSettles(1)
  \/ Chat001TalkSettles(1)
  \/ Chat000Receive(1)
  \/ Chat000CompletionSettles(1)

Spec == Init /\ [][Next]_vars

\* ------------------------------------------- the resolver functions alone
MaxBarbers == 2

BarberRequests == {JNull, JUndef} \cup {JNum(n) : n \in Ids} \cup {JStr(s) : s \in Names}

InitResolver ==
  /\ variant = "none"
  /\ InitReqs
  /\ InitFn

CallMapServicesToIds ==
  /\ fnOp = "none"
  /\ \E requested \in SeqsUpTo(Items, MaxRequested), cs \in SeqsUpTo(Services, MaxServices) :
       /\ fnRequested' = requested
       /\ fnCatalog' = cs
       /\ fnOut' = mapServicesToIds(requested, cs)
  /\ fnOp' = "mapServicesToIds"
  /\ UNCHANGED reqVars

CallMapBarberToId ==
  /\ fnOp = "none"
  /\ \E requested \in BarberRequests, bs \in SeqsUpTo(Barbers, MaxBarbers) :
       /\ fnRequested' = requested
       /\ fnCatalog' = bs
       /\ fnOut' = mapBarberToId(requested, bs)
  /\ fnOp' = "mapBarberToId"
  /\ UNCHANGED reqVars

\* the caller takes the result
FnReturn ==
  /\ fnOp # "none"
  /\ fnOp' = "none"
  /\ fnRequested' = <<>>
  /\ fnCatalog' = <<>>
  /\ fnOut' = <<>>
  /\ UNCHANGED reqVars

NextResolver == CallMapServicesToIds \/ CallMapBarberToId \/ FnReturn

SpecResolver == InitResolver /\ [][NextResolver]_vars

\* ------------------------------------------ concurrent requests, server.js
JoseService == [id |-> 1, name |-> Jose, synonyms |-> <<>>]

ConcCatalogInputs ==
  {[t |-> "undefined"], [t |-> "object", services |-> <<JoseService>>, barbers |-> <<>>]}

ConcPlannerOutcomes ==
  {Threw,
   [t |-> "returned", content |-> [kind |-> "prose"]],
   [t |-> "returned", content |-> [kind |-> "missing"]],
   [t |-> "returned", content |->
      [kind |-> "json", fence |-> "none",
       value |-> [intent |-> JStr("create_appointment"),
                  args |-> JObj(JNull, JArr(<<JStr(JOSE)>>))]]]}

InitConc ==
  /\ variant = "server"
  /\ InitReqs
  /\ InitFn

NextConc ==
  \/ \E r \in Reqs : ChatReceive(r, ConcCatalogInputs)
  \/ \E r \in Reqs : ChatPlannerSettles(r, ConcPlannerOutcomes)
  \/ \E r \in Reqs : ChatTalkSettles(r)

\* every external model call eventually returns or fails, and the event loop
\* then resumes the handler that awaits it
SpecConc ==
  /\ InitConc
  /\ [][NextConc]_vars
  /\ \A r \in Reqs : WF_vars(ChatPlannerSettles(r, ConcPlannerOutcomes))
  /\ \A r \in Reqs : WF_vars(ChatTalkSettles(r))

\* ----------------------------------------------------------- properties
ServiceIdsOf(cat) == {cat.services[i].id : i \in 1..Len(cat.services)}
BarberIdsOf(cat) == {cat.barbers[i].id : i \in 1..Len(cat.barbers)}

\* the JSON value the server.js handler validated for request r
ParsedOf(r) == stripFence(rawOf(plan[r].content))

PlannerOutputParses(r) == plan[r].t = "returned" /\ jsonParses(ParsedOf(r))

PlannerOutputValid(r) == PlannerOutputParses(r) /\ IntentSchemaOk(ParsedOf(r).value)

\* request r of server.js finished and no model call of it failed
ServedWithoutFailure(r) ==
  /\ variant = "server"
  /\ pc[r] = "done"
  /\ plan[r].t = "returned"
  /\ talk[r].t # "threw"

RequestedOf(r) == Coalesce(ParsedOf(r).value.args.services, JArr(<<>>)).v

\* C1: the args of a business response hold no service id and no non-null
\* barber id that is absent from the catalog of the same request
C1_ResolvedArgsWithinCatalog ==
  \A r \in Reqs :
    (ServedWithoutFailure(r) /\ PlannerOutputValid(r)
       /\ ParsedOf(r).value.intent.v # "small_talk")
      => /\ Len(responses[r]) = 1
         /\ Range(responses[r][1].args.services) \subseteq ServiceIdsOf(catalog[r])
         /\ \/ responses[r][1].args.barber = JNull
            \/ responses[r][1].args.barber.v \in BarberIdsOf(catalog[r])

\* C2: planner output that does not parse or does not match the intent schema
\* is answered ok:true, mode small_talk, with a content string
C2_InvalidOutputIsSmallTalk ==
  \A r \in Reqs :
    (ServedWithoutFailure(r) /\ ~PlannerOutputValid(r))
      => /\ Len(responses[r]) = 1
         /\ responses[r][1].status = 200
         /\ responses[r][1].ok
         /\ responses[r][1].mode = "small_talk"
         /\ "content" \in DOMAIN responses[r][1]

\* C3: a validated small_talk intent takes the fallback path: a second model
\* call is made and its text is the content of the small_talk response
C3_ValidSmallTalkTakesFallback ==
  \A r \in Reqs :
    (ServedWithoutFailure(r) /\ PlannerOutputValid(r)
       /\ ParsedOf(r).value.intent.v = "small_talk")
      => /\ Len(calls[r]) = 2
         /\ calls[r][2].kind = "talk"
         /\ talk[r].t = "returned"
         /\ responses[r] = <<smallTalkResponse(talkContent(talk[r]))>>

\* no two catalog services share a normalized key
DistinctKeys(cs) ==
  \A i, j \in 1..Len(cs) :
    i # j => Range(keysOf(cs[i])) \cap Range(keysOf(cs[j])) = {}

\* the catalog services whose normalized name or synonym is the normalized str
MatchesOf(str, cs) == {i \in 1..Len(cs) : norm(str) \in Range(keysOf(cs[i]))}

\* C4: every requested string that matches a catalog service by normalized
\* name or synonym puts that service's id in the result, and a string
\* without a match contributes nothing
C4_MatchedNamesResolve ==
  (fnOp = "mapServicesToIds" /\ DistinctKeys(fnCatalog))
    => /\ \A i \in 1..Len(fnRequested) :
            IsStr(fnRequested[i])
              => \A j \in MatchesOf(fnRequested[i].v, fnCatalog) :
                   fnCatalog[j].id \in Range(fnOut)
       /\ Range(fnOut) \subseteq
            {fnRequested[i].v : i \in {k \in 1..Len(fnRequested) : IsNum(fnRequested[k])}}
              \cup {fnCatalog[j].id : j \in
                      UNION {MatchesOf(fnRequested[i].v, fnCatalog) :
                               i \in {k \in 1..Len(fnRequested) : IsStr(fnRequested[k])}}}

\* C5: meta.unmatchedServices of a business response lists exactly the
\* requested names that did not resolve to a catalog service (stated here for
\* requests that name every service by a string)
C5_UnmatchedListsUnresolved ==
  \A r \in Reqs :
    (ServedWithoutFailure(r) /\ PlannerOutputValid(r)
       /\ ParsedOf(r).value.intent.v # "small_talk"
       /\ \A i \in 1..Len(RequestedOf(r)) : IsStr(RequestedOf(r)[i]))
      => /\ Len(responses[r]) = 1
         /\ responses[r][1].meta.unmatchedServices =
              SelectSeq(RequestedOf(r),
                        LAMBDA s : IsStr(s) /\ pushed(s, catalog[r].services) = <<>>)

\* C6: a failed model call is answered with status 500 and {ok:false, error},
\* no ok:true response is sent, and a failed planner call is followed by no
\* small-talk call
C6_FailedCallGives500 ==
  \A r \in Reqs :
    (\E i \in 1..Len(calls[r]) : calls[r][i].status = "threw")
      => /\ Len(responses[r]) = 1
         /\ responses[r][1].status = 500
         /\ ~responses[r][1].ok
         /\ "error" \in DOMAIN responses[r][1]
         /\ plan[r].t = "threw" => Len(calls[r]) = 1

C6_Witness ==
  /\ variant = "server"
  /\ pc[1] = "done"
  /\ Len(calls[1]) = 2
  /\ calls[1][2].kind = "talk"
  /\ calls[1][2].status = "threw"
  /\ Len(responses[1]) = 1
  /\ responses[1][1].status = 500

\* C7: a request makes at most two model calls: the planner call once, first,
\* and the small-talk call at most once and only after the planner returned
C7_AtMostTwoCalls ==
  \A r \in Reqs :
    (variant \in {"server", "part_001"} /\ pc[r] # "idle")
      => /\ Len(calls[r]) \in {1, 2}
         /\ {i \in 1..Len(calls[r]) : calls[r][i].kind = "planner"} = {1}
         /\ Len(calls[r]) = 2
              => /\ calls[r][2].kind = "talk"
                 /\ calls[r][1].status = "returned"

C7_Witness ==
  /\ variant = "server"
  /\ pc[1] = "done"
  /\ Len(calls[1]) = 2
  /\ calls[1][1].status = "returned"
  /\ calls[1][2].status = "returned"
  /\ ~PlannerOutputValid(1)

\* the key set of every catalog service, in catalog order
KeySets(cs) == [i \in 1..Len(cs) |-> Range(keysOf(cs[i]))]

\* index of the first, and of the last, key set holding key k
FirstWith(k, ks) ==
  CHOOSE i \in 1..Len(ks) : k \in ks[i] /\ \A j \in 1..(i - 1) : k \notin ks[j]

LastWith(k, ks) ==
  CHOOSE i \in 1..Len(ks) : k \in ks[i] /\ \A j \in (i + 1)..Len(ks) : k \notin ks[j]

AllKeys(ks) == UNION {ks[i] : i \in 1..Len(ks)}

\* a single requested name
SingleName ==
  /\ fnOp = "mapServicesToIds"
  /\ Len(fnRequested) = 1
  /\ IsStr(fnRequested[1])

\* C8 as stated: on a key collision the earlier catalog service wins
C8_FirstWins ==
  (SingleName /\ \A i \in 1..Len(fnCatalog) : fnCatalog[i].id # 0)
    => LET ks == KeySets(fnCatalog)
           k == norm(fnRequested[1].v)
       IN  k \in AllKeys(ks) => fnOut = <<fnCatalog[FirstWith(k, ks)].id>>

\* C8 amended: on a key collision the later catalog service wins: the lookup
\* maps every key to the id of the last service holding it, and a requested
\* name resolves to that id, or to nothing when that id is 0
C8_LastWins ==
  fnOp = "mapServicesToIds"
    => LET m == byName(fnCatalog)
           ks == KeySets(fnCatalog)
           keys == AllKeys(ks)
       IN  /\ DOMAIN m = keys
           /\ \A k \in keys : m[k] = fnCatalog[LastWith(k, ks)].id
           /\ SingleName
                => LET k == norm(fnRequested[1].v)
                   IN  k \in keys
                         => LET id == fnCatalog[LastWith(k, ks)].id
                            IN  fnOut = IF id # 0 THEN <<id>> ELSE <<>>

C8_Witness ==
  /\ SingleName
  /\ Len(fnCatalog) = 2
  /\ norm(fnCatalog[1].name) = norm(fnRequested[1].v)
  /\ norm(fnCatalog[2].name) = norm(fnRequested[1].v)
  /\ fnCatalog[1].id = 1
  /\ fnCatalog[2].id = 2
  /\ fnOut = <<2>>

\* C9: null or undefined gives null, a number is returned unchanged, a string
\* gives the id of the first barber in catalog order with that normalized
\* name, whatever the id, and null when there is none
C9_BarberResolution ==
  fnOp = "mapBarberToId"
    => CASE fnRequested.t \in {"null", "undefined"} -> fnOut = JNull
         [] fnRequested.t = "number" -> fnOut = fnRequested
         [] OTHER ->
              LET hits == {i \in 1..Len(fnCatalog) :
                             norm(fnCatalog[i].name) = norm(fnRequested.v)}
              IN  IF hits = {} THEN fnOut = JNull
                  ELSE \E i \in hits :
                         /\ \A j \in 1..(i - 1) : j \notin hits
                         /\ fnOut = JNum(fnCatalog[i].id)

C9_Witness ==
  /\ fnOp = "mapBarberToId"
  /\ fnRequested = JStr(JOSE)
  /\ Len(fnCatalog) = 2
  /\ fnCatalog[1] = [id |-> 0, name |-> Jose]
  /\ fnCatalog[2] = [id |-> 1, name |-> JOSE]
  /\ fnOut = JNum(0)

\* what request r was given: its catalog and the outcomes of its model calls
InputsOf(r) == <<catalog[r], plan[r], talk[r]>>

C10_Safety ==
  /\ \A r \in Reqs :
       /\ Len(responses[r]) <= 1
       /\ pc[r] = "done" <=> Len(responses[r]) = 1
       /\ Len(responses[r]) = 1
            => \A i \in 1..Len(calls[r]) : calls[r][i].status # "pending"
  /\ \A r1, r2 \in Reqs :
       (pc[r1] = "done" /\ pc[r2] = "done" /\ InputsOf(r1) = InputsOf(r2))
         => responses[r1] = responses[r2]

\* C10: every request gets exactly one response, sent after all of its model
\* calls have settled, and the response depends on nothing but the request's
\* own inputs, however the requests interleave
C10_ExactlyOneResponse ==
  /\ []C10_Safety
  /\ \A r \in Reqs : (pc[r] # "idle") ~> (Len(responses[r]) = 1)

C10_Witness ==
  /\ pc[1] = "done"
  /\ Len(responses[1]) = 1
  /\ responses[1][1].ok
  /\ pc[2] = "await_talk"
  /\ catalog[1] # catalog[2]

====
